---- MODULE Spec2Model ----
(***************************************************************************)
(* Model of scripts/fetch_data.py: the dataset retrieval orchestrator      *)
(* fetch_from_paris_api, the chunk fetcher fetch_chunk, the full-export    *)
(* fallback fetch_csv_download and the checkpoint file CACHE_FILE.         *)
(*                                                                         *)
(* A record list is a sequence of segments [kind, lo, hi): the records of  *)
(* the remote dataset with indices lo..hi-1, in one of three shapes:       *)
(*   "json"   a record dict as returned by the paginated API,              *)
(*   "row"    a flattened row (json_normalize / to_csv / read_csv),        *)
(*   "export" a row of the full CSV export.                                *)
(*                                                                         *)
(* The second part models the district normalizers of scripts/load_to_db.py *)
(* and scripts/process_data.py as operators on Python values, applied by   *)
(* the pipeline stages to one value of the district column (SpecNorm).     *)
(***************************************************************************)
EXTENDS Integers, Sequences, FiniteSets, TLC

\* ---------------------------------------------------------------- bounds
MaxNhits == 9500      \* largest record count the probe may report
ShortAvail == 5200    \* a server that serves fewer records than it advertised
ExportSize == 9500    \* number of rows of a non-empty full export
MaxRuns == 2          \* calls of fetch_from_paris_api in one behaviour
LiveRuns == 2       \* calls followed when termination is checked

\* ------------------------------------------------------ program constants
Rows == 1000              \* rows=1000 in fetch_trees / fetch_green_spaces
LargeThreshold == 9000    \* nhits > 9000
SaveEvery == 5000         \* len(all_records) >= 5000
SessionLimit == 5000      \* session_count >= 5000
MaxAttempts == 5          \* range(5)

LesArbres == "les-arbres"
EspacesVerts == "espaces_verts"
Datasets == {LesArbres, EspacesVerts}
TreesCsv == "data/raw_trees.csv"
GreenCsv == "data/raw_green_spaces.csv"
Paths == {TreesCsv, GreenCsv}
\* the calls made: fetch_trees(), fetch_green_spaces(), and direct calls for
\* the resumable dataset with the default parallel=False
Calls == {[dataset |-> LesArbres, save_as |-> TreesCsv, parallel |-> TRUE],
          [dataset |-> EspacesVerts, save_as |-> GreenCsv, parallel |-> FALSE],
          [dataset |-> LesArbres, save_as |-> TreesCsv, parallel |-> FALSE],
          [dataset |-> LesArbres, save_as |-> GreenCsv, parallel |-> FALSE]}

NhitsChoices == {0, 5500, MaxNhits}
AvailChoices(n) == {n} \cup {a \in {0, ShortAvail} : a < n}
ExportChoices == {0, ExportSize}

Min(a, b) == IF a < b THEN a ELSE b

\* ------------------------------------------------------------ record lists
Seg(k, lo, hi) == [kind |-> k, lo |-> lo, hi |-> hi]

\* list.extend, keeping the representation canonical (adjacent segments of
\* the same shape are one segment)
Extend1(recs, s) ==
    IF s.lo >= s.hi THEN recs
    ELSE IF recs # <<>> /\ recs[Len(recs)].kind = s.kind /\ recs[Len(recs)].hi = s.lo
         THEN [recs EXCEPT ![Len(recs)].hi = s.hi]
         ELSE Append(recs, s)

RECURSIVE Extend(_, _)
Extend(recs, more) ==
    IF more = <<>> THEN recs ELSE Extend(Extend1(recs, Head(more)), Tail(more))

RECURSIVE Count(_)
Count(recs) == IF recs = <<>> THEN 0 ELSE (Head(recs).hi - Head(recs).lo) + Count(Tail(recs))

\* pd.json_normalize: API dicts become flat rows, flat rows stay as they are
FlatKind(k) == IF k = "json" THEN "row" ELSE k
RECURSIVE JsonNormalize(_)
JsonNormalize(recs) ==
    IF recs = <<>> THEN <<>>
    ELSE Extend(<<Seg(FlatKind(Head(recs).kind), Head(recs).lo, Head(recs).hi)>>,
                JsonNormalize(Tail(recs)))

\* ------------------------------------------------------------------- files
NoFile == [exists |-> FALSE, header |-> FALSE, rows |-> <<>>]
\* DataFrame.to_csv(index=False): a frame without columns is written as an
\* empty line, without a header
ToCsv(df, hasColumns) == [exists |-> TRUE, header |-> hasColumns, rows |-> df]
\* pd.read_csv raises EmptyDataError on a file without a header line
ReadCsvRaises(f) == ~f.header

NoCache == [st |-> "absent", start |-> 0]
EmptyCache == [st |-> "empty", start |-> 0]
CacheOf(n) == [st |-> "ok", start |-> n]
\* checkpoint files json.load accepts but that hold no usable offset:
\* no 'start' key, and a 'start' that is not a number (e.g. {"start": "abc"})
NoStartCache == [st |-> "nostart", start |-> 0]
BadStartCache == [st |-> "badstart", start |-> 0]
CorruptCaches == {EmptyCache, NoStartCache, BadStartCache}

\* no district value is being normalized
Unset == [t |-> "unset"]
NormIdle == [x |-> Unset, load |-> Unset, again |-> Unset, trees |-> Unset,
             cooling |-> Unset]

\* ------------------------------------------------------------------- state
VARIABLES
    pc,             \* position in fetch_from_paris_api / fetch_csv_download
    dataset, save_as, parallel,   \* arguments of the running call
    nhits,          \* probed total
    avail,          \* what the server actually serves during this run
    start, all_records, session_count, attempt, records,
    futs,           \* futures of the parallel batch
    after,          \* where control goes after the checkpoint write
    result,         \* returned DataFrame
    driver,         \* position in __main__: 0 outside it, 1 in fetch_trees(), 2 after it
    norm,           \* a district value on its way through the normalizers
    cache,          \* CACHE_FILE
    files,          \* snapshot files by path
    session,        \* number of requests.Session objects opened by the run
    runs,           \* calls started so far
    h               \* history of the running call (observation only)

locals == <<dataset, save_as, parallel, nhits, avail, start, all_records,
            session_count, attempt, records, futs, after, result, session, runs, driver,
            norm>>
vars == <<pc, dataset, save_as, parallel, nhits, avail, start, all_records,
          session_count, attempt, records, futs, after, result, cache, files,
          session, runs, driver, norm, h>>

H0 == [reqs |-> {}, firstReq |-> -1, lastReq |-> -1, curTries |-> 0,
       revisit |-> FALSE, csvCalls |-> 0, reqAfterCsv |-> FALSE,
       probe |-> "none", gate |-> FALSE, cacheRead |-> FALSE, cacheWrites |-> {},
       cacheWriteBeforeCsv |-> FALSE,
       export |-> "none", exportRows |-> <<>>,
       cache0 |-> NoCache, file0 |-> NoFile,
       resumeStart |-> -1, resumeCount |-> -1,
       curFails |-> 0, exhaustedAt |-> -1, finalCount |-> -1, lastErr |-> "none",
       rotations |-> 0, snapWrites |-> 0,
       chunkErr |-> FALSE, doneOrder |-> <<>>, errBatch |-> 0,
       iterStart |-> -1, sessFetched |-> 0, prev |-> -1,
       tooMany |-> FALSE]

\* a page request at offset o is put on the wire
NoteReq(hh, o) ==
    [hh EXCEPT !.reqs = @ \cup {o},
               !.firstReq = IF @ = -1 THEN o ELSE @,
               !.lastReq = o,
               !.curTries = IF hh.lastReq = o THEN @ + 1 ELSE 1,
               !.tooMany = @ \/ (hh.lastReq = o /\ hh.curTries + 1 > 5),
               !.curFails = IF hh.lastReq = o THEN @ ELSE 0,
               !.revisit = @ \/ (o \in hh.reqs /\ o # hh.lastReq),
               !.reqAfterCsv = @ \/ hh.csvCalls > 0]

\* the request just noted failed; exhaustedAt remembers the first offset that
\* failed MaxAttempts times in a row
NoteFail(hh, kind) ==
    [hh EXCEPT !.lastErr = kind,
               !.curFails = @ + 1,
               !.exhaustedAt = IF @ = -1 /\ hh.curFails + 1 >= 5 THEN hh.lastReq ELSE @]

NoteCsv(hh) == [hh EXCEPT !.csvCalls = @ + 1]

\* a checkpoint file left damaged by something other than this program
InitCorrupt ==
    /\ pc = "idle"
    /\ dataset = LesArbres /\ save_as = TreesCsv /\ parallel = FALSE
    /\ nhits = 0 /\ avail = 0 /\ start = 0 /\ all_records = <<>>
    /\ session_count = 0 /\ attempt = 0 /\ records = 0
    /\ futs = <<>> /\ after = "none" /\ result = <<>>
    /\ cache \in CorruptCaches
    /\ files = [p \in Paths |-> NoFile]
    /\ session = 0
    /\ runs = 0
    /\ driver = 0
    /\ norm = NormIdle
    /\ h = H0

Init ==
    /\ pc = "idle"
    /\ dataset = LesArbres /\ save_as = TreesCsv /\ parallel = FALSE
    /\ nhits = 0 /\ avail = 0 /\ start = 0 /\ all_records = <<>>
    /\ session_count = 0 /\ attempt = 0 /\ records = 0
    /\ futs = <<>> /\ after = "none" /\ result = <<>>
    /\ cache = NoCache
    /\ files = [p \in Paths |-> NoFile]
    /\ session = 0
    /\ runs = 0
    /\ driver = 0
    /\ norm = NormIdle
    /\ h = H0


\* ------------------------------------------------------------- the server
\* records the paginated endpoint returns for (start = s, rows = n)
PageRecords(s, n) == IF s >= avail THEN <<>> ELSE <<Seg("json", s, Min(s + n, avail))>>
ExportRows(m) == IF m = 0 THEN <<>> ELSE <<Seg("export", 0, m)>>

CacheExists == cache.st # "absent"
IsTrees == dataset = LesArbres
ReqRows == Min(Rows, nhits - start)                 \* params['rows']
ChunkSize == Rows * 2
Starts == IF start + Rows < Min(start + ChunkSize, nhits)
          THEN <<start, start + Rows>> ELSE <<start>>

ResetLocals ==
    /\ nhits' = 0 /\ avail' = 0 /\ start' = 0 /\ all_records' = <<>>
    /\ session_count' = 0 /\ attempt' = 0 /\ records' = 0
    /\ futs' = <<>> /\ after' = "none" /\ result' = <<>>

\* ------------------------------------------------------------------ driver
\* a call fetch_from_paris_api(d, p, rows=1000, parallel=par)
StartRun(d, p, par) ==
    /\ pc \in {"idle", "done", "raised"}
    /\ ~(pc = "done" /\ driver = 1)
    /\ runs < MaxRuns
    /\ runs' = runs + 1
    /\ driver' = 0
    /\ pc' = "probe"
    /\ dataset' = d /\ save_as' = p /\ parallel' = par
    /\ ResetLocals
    /\ session' = 1
    /\ h' = [H0 EXCEPT !.cache0 = cache, !.file0 = files[p],
                       !.prev = IF pc = "idle" /\ d = LesArbres /\ p = TreesCsv
                                THEN h.prev ELSE -1]
    /\ UNCHANGED <<cache, files, norm>>

\* python fetch_data.py: __main__ calls fetch_trees() first; the two calls
\* it makes both count as runs
MainStart ==
    /\ pc \in {"idle", "done", "raised"}
    /\ ~(pc = "done" /\ driver = 1)
    /\ runs + 2 <= MaxRuns
    /\ runs' = runs + 1
    /\ driver' = 1
    /\ pc' = "probe"
    /\ dataset' = LesArbres /\ save_as' = TreesCsv /\ parallel' = TRUE
    /\ ResetLocals
    /\ session' = 1
    /\ h' = [H0 EXCEPT !.cache0 = cache, !.file0 = files[TreesCsv],
                       !.prev = IF pc = "idle" THEN h.prev ELSE -1]
    /\ UNCHANGED <<cache, files, norm>>

\* fetch_trees() returned (its value is dropped): __main__ calls
\* fetch_green_spaces(); the three calls after it are for non-resumable
\* datasets like this one
MainNext ==
    /\ pc = "done" /\ driver = 1
    /\ driver' = 2
    /\ pc' = "probe"
    /\ dataset' = EspacesVerts /\ save_as' = GreenCsv /\ parallel' = FALSE
    /\ ResetLocals
    /\ session' = 1
    /\ runs' = runs + 1
    /\ h' = [H0 EXCEPT !.cache0 = cache, !.file0 = files[GreenCsv]]
    /\ UNCHANGED <<cache, files, norm>>

\* positions inside the pagination loop (lines 96-170)
PaginationPcs == {"loop", "rotate", "seq", "seq_save", "ckpt_open", "ckpt_dump",
                  "par_submit", "par_wait", "incr"}

\* the process is killed (or the machine stops) in the middle of a call;
\* h.prev remembers the nhits of a fetch of les-arbres into data/raw_trees.csv
\* that was killed during pagination, for the call that follows it
Crash ==
    /\ pc \notin {"idle", "done", "raised"}
    /\ pc' = "idle"
    /\ dataset' = LesArbres /\ save_as' = TreesCsv /\ parallel' = FALSE
    /\ ResetLocals
    /\ session' = 0
    /\ driver' = 0
    /\ h' = [H0 EXCEPT !.prev = IF IsTrees /\ save_as = TreesCsv /\ pc \in PaginationPcs
                                THEN nhits ELSE -1]
    /\ UNCHANGED <<runs, cache, files, norm>>

\* ------------------------------------------------------------------- probe
\* mutant: the probe error is swallowed and the run goes on to the gate
ProbeFailMut ==
    /\ pc = "probe"
    /\ pc' = "gate"
    /\ h' = [h EXCEPT !.probe = "fail"]
    /\ UNCHANGED <<locals, cache, files>>

ProbeFail ==
    /\ pc = "probe"
    /\ pc' = "csv"
    /\ h' = NoteCsv([h EXCEPT !.probe = "fail"])
    /\ UNCHANGED <<locals, cache, files>>

ProbeOK(n, a) ==
    /\ pc = "probe"
    /\ nhits' = n /\ avail' = a
    /\ pc' = "gate"
    /\ h' = [h EXCEPT !.probe = "ok"]
    /\ UNCHANGED <<runs, driver, norm, dataset, save_as, parallel, start, all_records, session_count,
                   attempt, records, futs, after, result, session, cache, files>>

\* mutant: the size gate is never taken
GateMut ==
    /\ pc = "gate"
    /\ pc' = "resume" /\ h' = h
    /\ UNCHANGED <<locals, cache, files>>

Gate ==
    /\ pc = "gate"
    /\ IF IsTrees /\ nhits > LargeThreshold
       THEN pc' = "csv" /\ h' = NoteCsv([h EXCEPT !.gate = TRUE])
       ELSE pc' = "resume" /\ h' = h
    /\ UNCHANGED <<locals, cache, files>>

\* lines 73-95: read the checkpoint, load the partial snapshot
CacheStart == IF cache.st = "ok" THEN cache.start ELSE 0
\* mutant: the partial snapshot is loaded but pagination restarts at offset 0
ResumeMut ==
    /\ pc = "resume"
    /\ LET s0 == IF IsTrees THEN CacheStart ELSE 0
           load == IsTrees /\ s0 > 0 /\ files[save_as].exists
           acc == IF load THEN files[save_as].rows ELSE <<>>
       IN IF (IsTrees /\ cache.st = "badstart") \/ (load /\ ReadCsvRaises(files[save_as]))
          THEN /\ pc' = "raised"
               /\ h' = [h EXCEPT !.cacheRead = TRUE]
               /\ UNCHANGED <<start, all_records, session_count>>
          ELSE /\ pc' = "loop"
               /\ start' = 0
               /\ all_records' = acc
               /\ session_count' = 0
               /\ h' = [h EXCEPT !.cacheRead = IsTrees /\ CacheExists,
                                 !.resumeStart = 0, !.resumeCount = Count(acc)]
    /\ UNCHANGED <<runs, driver, norm, dataset, save_as, parallel, nhits, avail, attempt, records,
                   futs, after, result, session, cache, files>>

Resume ==
    /\ pc = "resume"
    /\ LET s0 == IF IsTrees THEN CacheStart ELSE 0
           load == IsTrees /\ s0 > 0 /\ files[save_as].exists
           acc == IF load THEN files[save_as].rows ELSE <<>>
       IN IF (IsTrees /\ cache.st = "badstart") \/ (load /\ ReadCsvRaises(files[save_as]))
          THEN /\ pc' = "raised"
               /\ h' = [h EXCEPT !.cacheRead = TRUE]
               /\ UNCHANGED <<start, all_records, session_count>>
          ELSE /\ pc' = "loop"
               /\ start' = s0
               /\ all_records' = acc
               /\ session_count' = s0
               /\ h' = [h EXCEPT !.cacheRead = IsTrees /\ CacheExists,
                                 !.resumeStart = s0, !.resumeCount = Count(acc)]
    /\ UNCHANGED <<runs, driver, norm, dataset, save_as, parallel, nhits, avail, attempt, records,
                   futs, after, result, session, cache, files>>

LoopTest ==
    /\ pc = "loop"
    /\ pc' = IF start < nhits THEN "rotate" ELSE "final"
    /\ h' = [h EXCEPT !.iterStart = IF start < nhits THEN start ELSE @]
    /\ UNCHANGED <<locals, cache, files>>

\* lines 97-103
Rotate ==
    /\ pc = "rotate"
    /\ IF session_count >= SessionLimit
       THEN session' = session + 1 /\ session_count' = 0
            /\ h' = [h EXCEPT !.rotations = @ + 1, !.sessFetched = 0]
       ELSE UNCHANGED <<session, session_count, h>>
    /\ pc' = IF IsTrees /\ parallel THEN "par_submit" ELSE "seq"
    /\ attempt' = 0
    /\ UNCHANGED <<runs, driver, norm, dataset, save_as, parallel, nhits, avail, start, all_records,
                   records, futs, after, result, cache, files>>


\* ------------------------------------------------- sequential page (134-163)
\* The page at `start` is obtained: `break` leaves the for loop.  `attempt`
\* is not read again before the next `for` assigns it, so it is put back to
\* 0 here; h.curTries counts the tries of the page in progress and h.tooMany
\* remembers whether any page was ever tried more than 5 times.
\* mutant: the offset advances by the number of records received and a short
\* page does not end the loop
SeqOKMut ==
    /\ pc = "seq"
    /\ LET page == PageRecords(start, ReqRows)
       IN /\ all_records' = Extend(all_records, page)
          /\ records' = Count(page)
          /\ pc' = "incr"
          /\ start' = start + Count(page)
          /\ session_count' = session_count + Count(page)
    /\ attempt' = 0
    /\ h' = [NoteReq(h, start) EXCEPT !.lastErr = "none", !.curFails = 0, !.curTries = 0,
                                      !.sessFetched = @ + Count(PageRecords(start, ReqRows))]
    /\ UNCHANGED <<runs, driver, norm, dataset, save_as, parallel, nhits, avail, futs, after,
                   result, session, cache, files>>

SeqOK ==
    /\ pc = "seq"
    /\ LET page == PageRecords(start, ReqRows)
       IN /\ all_records' = Extend(all_records, page)
          /\ records' = Count(page)
          /\ pc' = IF Count(page) < ReqRows THEN "final" ELSE "incr"
    /\ start' = start + ReqRows
    /\ session_count' = session_count + ReqRows
    /\ attempt' = 0
    /\ h' = [NoteReq(h, start) EXCEPT !.lastErr = "none", !.curFails = 0, !.curTries = 0,
                                      !.sessFetched = @ + Count(PageRecords(start, ReqRows))]
    /\ UNCHANGED <<runs, driver, norm, dataset, save_as, parallel, nhits, avail, futs, after,
                   result, session, cache, files>>

\* the request raises: a network error, or a malformed body (response.json()
\* or data['records'] raises); both land in the same except clause
\* mutant: one attempt too many before giving up (range(6))
SeqFailMut(kind) ==
    /\ pc = "seq"
    /\ IF attempt = MaxAttempts
       THEN /\ pc' = "seq_save"
            /\ h' = NoteFail(NoteReq(h, start), kind)
            /\ UNCHANGED attempt
       ELSE /\ pc' = "seq"
            /\ attempt' = attempt + 1
            /\ h' = NoteFail(NoteReq(h, start), kind)
    /\ UNCHANGED <<runs, driver, norm, dataset, save_as, parallel, nhits, avail, start, all_records,
                   session_count, records, futs, after, result, session, cache, files>>

SeqFail(kind) ==
    /\ pc = "seq"
    /\ IF attempt = MaxAttempts - 1
       THEN /\ pc' = "seq_save"
            /\ h' = NoteFail(NoteReq(h, start), kind)
            /\ UNCHANGED attempt
       ELSE /\ pc' = "seq"
            /\ attempt' = attempt + 1
            /\ h' = NoteFail(NoteReq(h, start), kind)
    /\ UNCHANGED <<runs, driver, norm, dataset, save_as, parallel, nhits, avail, start, all_records,
                   session_count, records, futs, after, result, session, cache, files>>

\* mutant: the fallback is entered without persisting the accumulated records
SeqSaveMut ==
    /\ pc = "seq_save"
    /\ pc' = "csv" /\ h' = NoteCsv([h EXCEPT !.lastErr = "none"])
    /\ UNCHANGED <<files, after>>
    /\ UNCHANGED <<runs, driver, norm, dataset, save_as, parallel, nhits, avail, start, all_records,
                   session_count, attempt, records, futs, result, session, cache>>

\* lines 151-160: persist what has been accumulated, then fall back
SeqSave ==
    /\ pc = "seq_save"
    /\ IF all_records # <<>>
       THEN /\ files' = [files EXCEPT ![save_as] = ToCsv(JsonNormalize(all_records), TRUE)]
            /\ IF IsTrees
               THEN pc' = "ckpt_open" /\ after' = "csv"
                    /\ h' = [h EXCEPT !.snapWrites = @ + 1, !.lastErr = "none"]
               ELSE pc' = "csv" /\ after' = after
                    /\ h' = NoteCsv([h EXCEPT !.snapWrites = @ + 1, !.lastErr = "none"])
       ELSE /\ pc' = "csv" /\ h' = NoteCsv([h EXCEPT !.lastErr = "none"])
            /\ UNCHANGED <<files, after>>
    /\ UNCHANGED <<runs, driver, norm, dataset, save_as, parallel, nhits, avail, start, all_records,
                   session_count, attempt, records, futs, result, session, cache>>

\* ---------------------------------------------------- checkpoint write
\* open(CACHE_FILE, 'w') truncates the file ...
CkptOpen ==
    /\ pc = "ckpt_open"
    /\ cache' = EmptyCache
    /\ pc' = "ckpt_dump"
    /\ UNCHANGED <<locals, files, h>>

\* ... and json.dump({'start': start}, f) fills it
CkptDump ==
    /\ pc = "ckpt_dump"
    /\ cache' = CacheOf(start)
    /\ pc' = after
    /\ after' = "none"
    /\ h' = LET w == [h EXCEPT !.cacheWrites = @ \cup {start},
                               !.cacheWriteBeforeCsv = TRUE]
            IN IF after = "csv" THEN NoteCsv(w) ELSE w
    /\ UNCHANGED <<runs, driver, norm, dataset, save_as, parallel, nhits, avail, start, all_records,
                   session_count, attempt, records, futs, result, session, files>>

\* ------------------------------------------------- parallel batch (103-132)
RECURSIVE NoteReqs(_, _)
NoteReqs(hh, ss) == IF ss = <<>> THEN hh ELSE NoteReqs(NoteReq(hh, Head(ss)), Tail(ss))

ParSubmit ==
    /\ pc = "par_submit"
    /\ futs' = [i \in 1..Len(Starts) |->
                  [s |-> Starts[i], st |-> "pending", recs |-> <<>>, err |-> FALSE]]
    /\ pc' = "par_wait"
    /\ h' = [NoteReqs(h, Starts) EXCEPT !.doneOrder = <<>>]
    /\ UNCHANGED <<runs, driver, norm, dataset, save_as, parallel, nhits, avail, start, all_records,
                   session_count, attempt, records, after, result, session, cache, files>>

\* fetch_chunk(dataset, s, rows, session) returns (records, None) or ([], str(e))
FetchChunk(i, ok) ==
    /\ pc = "par_wait"
    /\ i \in 1..Len(futs)
    /\ futs[i].st = "pending"
    /\ futs' = [futs EXCEPT ![i] =
                  [s |-> @.s, st |-> "done",
                   recs |-> IF ok THEN PageRecords(@.s, Rows) ELSE <<>>,
                   err |-> ~ok]]
    /\ h' = [h EXCEPT !.chunkErr = @ \/ ~ok, !.doneOrder = Append(@, i)]
    /\ UNCHANGED <<pc, runs, driver, norm, dataset, save_as, parallel, nhits, avail, start, all_records,
                   session_count, attempt, records, after, result, session, cache,
                   files>>

RECURSIVE ChunkRecords(_)
ChunkRecords(fs) == IF fs = <<>> THEN <<>> ELSE Extend(Head(fs).recs, ChunkRecords(Tail(fs)))

\* mutant: only the first future's error is looked at
ParJoinMut ==
    /\ pc = "par_wait"
    /\ \A i \in 1..Len(futs) : futs[i].st = "done"
    /\ LET chunk_records == ChunkRecords(futs)
           any_error == futs[1].err
           acc == Extend(all_records, chunk_records)
           hh == [h EXCEPT !.doneOrder = <<>>, !.sessFetched = @ + Count(chunk_records)]
       IN IF any_error
          THEN /\ pc' = "csv" /\ h' = NoteCsv([h EXCEPT !.errBatch = Count(chunk_records)])
               /\ UNCHANGED <<start, all_records, session_count, files, after>>
          ELSE /\ all_records' = acc
               /\ session_count' = session_count + Count(chunk_records)
               /\ start' = start + ChunkSize
               /\ IF chunk_records = <<>>
                  THEN IF acc # <<>>
                       THEN /\ files' = [files EXCEPT ![save_as] = ToCsv(JsonNormalize(acc), TRUE)]
                            /\ pc' = "ckpt_open" /\ after' = "csv"
                            /\ h' = [hh EXCEPT !.snapWrites = @ + 1]
                       ELSE /\ pc' = "csv" /\ h' = NoteCsv(hh)
                            /\ UNCHANGED <<files, after>>
                  ELSE /\ pc' = "incr" /\ h' = hh
                       /\ UNCHANGED <<files, after>>
    /\ futs' = <<>>
    /\ UNCHANGED <<runs, driver, norm, dataset, save_as, parallel, nhits, avail, attempt, records,
                   result, session, cache>>

ParJoin ==
    /\ pc = "par_wait"
    /\ \A i \in 1..Len(futs) : futs[i].st = "done"
    /\ LET chunk_records == ChunkRecords(futs)
           any_error == \E i \in 1..Len(futs) : futs[i].err
           acc == Extend(all_records, chunk_records)
           hh == [h EXCEPT !.doneOrder = <<>>, !.sessFetched = @ + Count(chunk_records)]
       IN IF any_error
          THEN /\ pc' = "csv" /\ h' = NoteCsv([h EXCEPT !.errBatch = Count(chunk_records)])
               /\ UNCHANGED <<start, all_records, session_count, files, after>>
          ELSE /\ all_records' = acc
               /\ session_count' = session_count + Count(chunk_records)
               /\ start' = start + ChunkSize
               /\ IF chunk_records = <<>>
                  THEN IF acc # <<>>
                       THEN /\ files' = [files EXCEPT ![save_as] = ToCsv(JsonNormalize(acc), TRUE)]
                            /\ pc' = "ckpt_open" /\ after' = "csv"
                            /\ h' = [hh EXCEPT !.snapWrites = @ + 1]
                       ELSE /\ pc' = "csv" /\ h' = NoteCsv(hh)
                            /\ UNCHANGED <<files, after>>
                  ELSE /\ pc' = "incr" /\ h' = hh
                       /\ UNCHANGED <<files, after>>
    /\ futs' = <<>>
    /\ UNCHANGED <<runs, driver, norm, dataset, save_as, parallel, nhits, avail, attempt, records,
                   result, session, cache>>

\* ------------------------------------------------ incremental save (165-170)
IncrSave ==
    /\ pc = "incr"
    /\ IF IsTrees /\ Count(all_records) >= SaveEvery
       THEN /\ files' = [files EXCEPT ![save_as] = ToCsv(JsonNormalize(all_records), TRUE)]
            /\ pc' = "ckpt_open" /\ after' = "loop"
            /\ h' = [h EXCEPT !.snapWrites = @ + 1]
       ELSE /\ pc' = "loop"
            /\ UNCHANGED <<files, after, h>>
    /\ UNCHANGED <<runs, driver, norm, dataset, save_as, parallel, nhits, avail, start, all_records,
                   session_count, attempt, records, futs, result, session, cache>>

\* ------------------------------------------------------ completion (172-182)
FinalWrite ==
    /\ pc = "final"
    /\ LET df == JsonNormalize(all_records)
       IN /\ files' = [files EXCEPT ![save_as] = ToCsv(df, df # <<>>)]
          /\ h' = [h EXCEPT !.finalCount = Count(df), !.snapWrites = @ + 1]
    /\ pc' = "final_rm"
    /\ UNCHANGED <<locals, cache>>

\* mutant: the shortfall test is len(df) <= nhits
FinalReturnMut ==
    /\ pc = "final_rm"
    /\ cache' = IF IsTrees /\ CacheExists THEN NoCache ELSE cache
    /\ IF Count(all_records) <= nhits
       THEN pc' = "csv" /\ h' = NoteCsv(h) /\ UNCHANGED result
       ELSE pc' = "done" /\ result' = JsonNormalize(all_records) /\ h' = h
    /\ UNCHANGED <<runs, driver, norm, dataset, save_as, parallel, nhits, avail, start, all_records,
                   session_count, attempt, records, futs, after, session, files>>

FinalReturn ==
    /\ pc = "final_rm"
    /\ cache' = IF IsTrees /\ CacheExists THEN NoCache ELSE cache
    /\ IF Count(all_records) < nhits
       THEN pc' = "csv" /\ h' = NoteCsv(h) /\ UNCHANGED result
       ELSE pc' = "done" /\ result' = JsonNormalize(all_records) /\ h' = h
    /\ UNCHANGED <<runs, driver, norm, dataset, save_as, parallel, nhits, avail, start, all_records,
                   session_count, attempt, records, futs, after, session, files>>

\* ------------------------------------------- fetch_csv_download (36-50)
\* mutant: the export's exception is not caught
CsvFailMut ==
    /\ pc = "csv"
    /\ pc' = "raised"
    /\ h' = [h EXCEPT !.export = "fail"]
    /\ UNCHANGED <<runs, driver, norm, dataset, save_as, parallel, nhits, avail, start, all_records,
                   session_count, attempt, records, futs, after, result, session, cache, files>>

CsvFail ==
    /\ pc = "csv"
    /\ result' = <<>>
    /\ pc' = "done"
    /\ h' = [h EXCEPT !.export = "fail"]
    /\ UNCHANGED <<runs, driver, norm, dataset, save_as, parallel, nhits, avail, start, all_records,
                   session_count, attempt, records, futs, after, session, cache, files>>

\* mutant: the export is appended to what the output file already holds
CsvWriteMut(m) ==
    /\ pc = "csv"
    /\ files' = [files EXCEPT ![save_as] = ToCsv(Extend(@.rows, ExportRows(m)), TRUE)]
    /\ pc' = "csv_rm"
    /\ h' = [h EXCEPT !.export = "ok", !.exportRows = ExportRows(m)]
    /\ UNCHANGED <<locals, cache>>

CsvWrite(m) ==
    /\ pc = "csv"
    /\ files' = [files EXCEPT ![save_as] = ToCsv(ExportRows(m), TRUE)]
    /\ pc' = "csv_rm"
    /\ h' = [h EXCEPT !.export = "ok", !.exportRows = ExportRows(m)]
    /\ UNCHANGED <<locals, cache>>

\* mutant: the checkpoint is not removed after a successful export
CsvReturnMut ==
    /\ pc = "csv_rm"
    /\ result' = h.exportRows
    /\ pc' = "done"
    /\ UNCHANGED <<runs, driver, norm, dataset, save_as, parallel, nhits, avail, start, all_records,
                   session_count, attempt, records, futs, after, session, files, h, cache>>

CsvReturn ==
    /\ pc = "csv_rm"
    /\ cache' = NoCache
    /\ result' = h.exportRows
    /\ pc' = "done"
    /\ UNCHANGED <<runs, driver, norm, dataset, save_as, parallel, nhits, avail, start, all_records,
                   session_count, attempt, records, futs, after, session, files, h>>

\* ------------------------------------------------------------ specification
Next ==
    \/ \E c \in Calls : StartRun(c.dataset, c.save_as, c.parallel)
    \/ MainStart
    \/ MainNext
    \/ Crash
    \/ ProbeFail
    \/ \E n \in NhitsChoices : \E a \in AvailChoices(n) : ProbeOK(n, a)
    \/ Gate
    \/ Resume
    \/ LoopTest
    \/ Rotate
    \/ SeqOK
    \/ \E k \in {"network", "malformed"} : SeqFail(k)
    \/ SeqSave
    \/ CkptOpen
    \/ CkptDump
    \/ ParSubmit
    \/ \E i \in 1..2, ok \in BOOLEAN : FetchChunk(i, ok)
    \/ ParJoin
    \/ IncrSave
    \/ FinalWrite
    \/ FinalReturn
    \/ CsvFail
    \/ \E m \in ExportChoices : CsvWrite(m)
    \/ CsvReturn

Spec == Init /\ [][Next]_vars
SpecCorrupt == InitCorrupt /\ [][Next]_vars

\* a step of the running call: every request returns or raises within its
\* timeout (30 s, 60 s for the export) and every sleep ends, so a call that
\* is not killed keeps taking steps
RunStep ==
    \/ ProbeFail
    \/ \E n \in NhitsChoices : \E a \in AvailChoices(n) : ProbeOK(n, a)
    \/ Gate
    \/ Resume
    \/ LoopTest
    \/ Rotate
    \/ SeqOK
    \/ \E k \in {"network", "malformed"} : SeqFail(k)
    \/ SeqSave
    \/ CkptOpen
    \/ CkptDump
    \/ ParSubmit
    \/ \E i \in 1..2, ok \in BOOLEAN : FetchChunk(i, ok)
    \/ ParJoin
    \/ IncrSave
    \/ FinalWrite
    \/ FinalReturn
    \/ CsvFail
    \/ \E m \in ExportChoices : CsvWrite(m)
    \/ CsvReturn

\* the state Init describes, with LiveRuns calls left to make
InitLive ==
    /\ pc = "idle"
    /\ dataset = LesArbres /\ save_as = TreesCsv /\ parallel = FALSE
    /\ nhits = 0 /\ avail = 0 /\ start = 0 /\ all_records = <<>>
    /\ session_count = 0 /\ attempt = 0 /\ records = 0
    /\ futs = <<>> /\ after = "none" /\ result = <<>>
    /\ cache = NoCache
    /\ files = [p \in Paths |-> NoFile]
    /\ session = 0
    /\ runs = MaxRuns - LiveRuns
    /\ driver = 0
    /\ norm = NormIdle
    /\ h = H0

SpecFair == InitLive /\ [][Next]_vars /\ WF_vars(RunStep)


\* =========================================================== normalizers
\* scripts/load_to_db.py and scripts/process_data.py: the district
\* ("arrondissement") normalizers.  A Python value is a record with a tag t:
\*   [t |-> "none"]              None
\*   [t |-> "nan"]               float('nan')
\*   [t |-> "inf"]               float('inf')
\*   [t |-> "int", n |-> n]      the integer n (n >= 0)
\*   [t |-> "float", n, f]       the float n + f/10 (n >= 0, f a digit)
\*   [t |-> "str", s |-> s]      a string, as the sequence of its characters
\*   [t |-> "raise", e |-> e]    the call raised exception e
MaxDistrict == 22     \* district numbers 0..MaxDistrict are tried (1..20 exist)
MaxPad == 1           \* blanks put around a string input

None == [t |-> "none"]
PyStrV(s) == [t |-> "str", s |-> s]
PyInt(n) == [t |-> "int", n |-> n]
PyFloat(n, f) == [t |-> "float", n |-> n, f |-> f]
Raise(e) == [t |-> "raise", e |-> e]

DigitChar == <<"0", "1", "2", "3", "4", "5", "6", "7", "8", "9">>
Digits == {DigitChar[i] : i \in 1..10}
DigitVal(c) == (CHOOSE i \in 1..10 : DigitChar[i] = c) - 1

\* str(n) for an integer n >= 0
RECURSIVE IntStr(_)
IntStr(n) == IF n < 10 THEN <<DigitChar[n + 1]>>
             ELSE Append(IntStr(n \div 10), DigitChar[(n % 10) + 1])

\* str(x)
Str(x) ==
    CASE x.t = "str" -> x.s
      [] x.t = "int" -> IntStr(x.n)
      [] x.t = "float" -> IntStr(x.n) \o <<".", DigitChar[x.f + 1]>>
      [] x.t = "inf" -> <<"i", "n", "f">>
      [] x.t = "nan" -> <<"n", "a", "n">>
      [] OTHER -> <<"N", "o", "n", "e">>

\* pd.isna(x) for a scalar
IsNa(x) == x.t \in {"none", "nan"}

\* s.strip()
RECURSIVE LStrip(_)
LStrip(s) == IF s # <<>> /\ Head(s) = " " THEN LStrip(Tail(s)) ELSE s
RECURSIVE RStrip(_)
RStrip(s) == IF s # <<>> /\ s[Len(s)] = " " THEN RStrip(SubSeq(s, 1, Len(s) - 1)) ELSE s
Strip(s) == RStrip(LStrip(s))

\* s.startswith(p)
StartsWith(s, p) == Len(s) >= Len(p) /\ SubSeq(s, 1, Len(p)) = p
\* s[a:b] for 0 <= a <= b
Slice(s, a, b) == SubSeq(s, a + 1, Min(b, Len(s)))
\* s.isdigit() (ASCII digits)
IsDigit(s) == s # <<>> /\ \A i \in 1..Len(s) : s[i] \in Digits
\* int(s) for a string of digits
RECURSIVE ParseInt(_)
ParseInt(s) == IF s = <<>> THEN 0
               ELSE 10 * ParseInt(SubSeq(s, 1, Len(s) - 1)) + DigitVal(s[Len(s)])
\* s.zfill(w) / format(n, "05d") for a string of digits
RECURSIVE ZFill(_, _)
ZFill(s, w) == IF Len(s) >= w THEN s ELSE ZFill(<<"0">> \o s, w)

\* s.replace(old, "")
RECURSIVE Remove(_, _)
Remove(s, old) ==
    IF s = <<>> THEN <<>>
    ELSE IF StartsWith(s, old) THEN Remove(SubSeq(s, Len(old) + 1, Len(s)), old)
    ELSE <<Head(s)>> \o Remove(Tail(s), old)

\* int(float(s)): float() skips surrounding blanks and reads digits with an
\* optional point ("75017", "75017.0", "75017.", ".5"), "inf" and "nan";
\* int() truncates, refuses nan with ValueError and inf with OverflowError.
\* (Signs, exponents and digit-group underscores are not among the inputs.)
PointAt(s) == IF \E i \in 1..Len(s) : s[i] = "."
              THEN CHOOSE i \in 1..Len(s) : s[i] = "." /\ \A j \in 1..(i - 1) : s[j] # "."
              ELSE 0
IntOfFloatStr(s) ==
    LET u == Strip(s)
        p == PointAt(u)
        ip == IF p = 0 THEN u ELSE SubSeq(u, 1, p - 1)
        fp == IF p = 0 THEN <<>> ELSE SubSeq(u, p + 1, Len(u))
    IN IF u = <<"i", "n", "f">> THEN Raise("OverflowError")
       ELSE IF u = <<"n", "a", "n">> THEN Raise("ValueError")
       ELSE IF /\ (ip # <<>> \/ fp # <<>>)
               /\ \A i \in 1..Len(ip) : ip[i] \in Digits
               /\ \A i \in 1..Len(fp) : fp[i] \in Digits
            THEN PyInt(ParseInt(ip))
            ELSE Raise("ValueError")

\* load_to_db.normalize_arrondissement(x)
\* mutant: the district digits alone are returned for a prefixed code
NormalizeArrondissementMut(x) ==
    IF IsNa(x) THEN None
    ELSE LET s == Strip(Str(x))
             d == Slice(s, 3, 5)
         IN IF StartsWith(s, <<"7", "5", "0">>) /\ IsDigit(d)
               /\ 1 <= ParseInt(d) /\ ParseInt(d) <= 20
            THEN PyStrV(d)
            ELSE LET v == IntOfFloatStr(s)
                 IN IF v.t = "raise"
                    THEN (IF v.e = "ValueError" THEN None ELSE v)
                    ELSE IF 75001 <= v.n /\ v.n <= 75020
                         THEN PyStrV(ZFill(IntStr(v.n), 5))
                         ELSE None

NormalizeArrondissement(x) ==
    IF IsNa(x) THEN None
    ELSE LET s == Strip(Str(x))
             d == Slice(s, 3, 5)
         IN IF StartsWith(s, <<"7", "5", "0">>) /\ IsDigit(d)
               /\ 1 <= ParseInt(d) /\ ParseInt(d) <= 20
            THEN PyStrV(Slice(s, 0, 5))
            ELSE LET v == IntOfFloatStr(s)
                 IN IF v.t = "raise"
                    THEN (IF v.e = "ValueError" THEN None ELSE v)
                    ELSE IF 75001 <= v.n /\ v.n <= 75020
                         THEN PyStrV(ZFill(IntStr(v.n), 5))
                         ELSE None

\* process_data.process_cooling_spaces.normalize_cooling_arrondissement(x)
NormalizeCoolingArrondissement(x) ==
    IF IsNa(x) THEN None
    ELSE LET s == Strip(Str(x))
             d == Slice(s, 3, 5)
         IN IF StartsWith(s, <<"7", "5", "0">>) /\ IsDigit(d)
               /\ 1 <= ParseInt(d) /\ ParseInt(d) <= 20
            THEN PyStrV(Slice(s, 0, 5))
            ELSE LET v == IntOfFloatStr(s)
                 IN IF v.t = "raise"
                    THEN (IF v.e = "ValueError" THEN None ELSE v)
                    ELSE IF 75001 <= v.n /\ v.n <= 75020
                         THEN PyStrV(ZFill(IntStr(v.n), 5))
                         ELSE None

\* process_data.process_trees.normalize_arrondissement(x)
TreesNormalizeArrondissement(x) ==
    IF IsNa(x) THEN None
    ELSE LET s == Remove(Remove(Remove(Str(x), <<"P", "A", "R", "I", "S", " ">>),
                                <<"E", " ", "A", "R", "R", "D", "T">>),
                         <<"E", "R", " ", "A", "R", "R", "D", "T">>)
         IN IF IsDigit(s) /\ 1 <= ParseInt(s) /\ ParseInt(s) <= 20
            THEN PyStrV(<<"7", "5", "0">> \o ZFill(s, 2))
            ELSE None

\* ----------------------------------------------------------- raw inputs
Blanks(k) == [i \in 1..k |-> " "]
Code(d) == 75000 + d
\* the ways district d reaches the pipeline
RepsOf(d) ==
    {PyStrV(IntStr(Code(d))), PyInt(Code(d)), PyFloat(Code(d), 0), PyFloat(Code(d), 5),
     PyStrV(IntStr(Code(d)) \o <<".", "0">>),
     PyInt(d), PyStrV(IntStr(d)), PyStrV(ZFill(IntStr(d), 2)),
     PyStrV(<<"P", "A", "R", "I", "S", " ">> \o IntStr(d)
            \o (IF d = 1 THEN <<"E", "R">> ELSE <<"E">>) \o <<" ", "A", "R", "R", "D", "T">>)}
    \cup {PyStrV(Blanks(k) \o IntStr(Code(d)) \o Blanks(k)) : k \in 1..MaxPad}
OtherInputs ==
    {None, [t |-> "nan"], [t |-> "inf"],
     PyStrV(<<>>), PyStrV(<<"P", "a", "r", "i", "s">>),
     PyStrV(<<"7", "5", "0", "1">>), PyInt(7501),
     PyStrV(<<"7", "5", "0", "1", "2", "3">>), PyInt(750123),
     PyStrV(<<"7", "5", "0", "0", "1", "a", "b", "c">>),
     PyStrV(<<"7", "5", "0", "9", "9">>), PyInt(75099), PyFloat(75099, 0),
     PyStrV(<<"0", "7", "5", "0", "0", "1">>), PyStrV(<<"7", "5", "0", "1", "7", ".">>),
     PyStrV(<<"9", "2", "1", "0", "0">>), PyInt(92100), PyInt(0),
     PyStrV(<<"i", "n", "f">>), PyStrV(<<"n", "a", "n">>)}
RawInputs == UNION {RepsOf(d) : d \in 0..MaxDistrict} \cup OtherInputs

\* the 20 district codes, as strings
Canonical == {IntStr(Code(d)) : d \in 1..20}

\* ------------------------------------------------- the pipeline stages
\* a value of the district column of a raw or processed file
InitNorm ==
    /\ pc = "idle"
    /\ dataset = LesArbres /\ save_as = TreesCsv /\ parallel = FALSE
    /\ nhits = 0 /\ avail = 0 /\ start = 0 /\ all_records = <<>>
    /\ session_count = 0 /\ attempt = 0 /\ records = 0
    /\ futs = <<>> /\ after = "none" /\ result = <<>>
    /\ cache = NoCache
    /\ files = [p \in Paths |-> NoFile]
    /\ session = 0
    /\ runs = 0
    /\ driver = 0
    /\ norm \in {[NormIdle EXCEPT !.x = v] : v \in RawInputs}
    /\ h = H0

NormFrame ==
    UNCHANGED <<pc, dataset, save_as, parallel, nhits, avail, start, all_records,
                session_count, attempt, records, futs, after, result, session, runs,
                driver, cache, files, h>>

\* load_data: df['arrondissement'].apply(normalize_arrondissement)
LoadNormalize ==
    /\ norm.x # Unset /\ norm.load = Unset
    /\ norm' = [norm EXCEPT !.load = NormalizeArrondissement(norm.x)]
    /\ NormFrame

\* load_data for cooling_spaces_counts: rows with a null district are dropped
\* (line 148) and the normalizer is applied to the column a second time
LoadNormalizeAgain ==
    /\ norm.load \notin {Unset, None} /\ norm.load.t # "raise"
    /\ norm.again = Unset
    /\ norm' = [norm EXCEPT !.again = NormalizeArrondissement(norm.load)]
    /\ NormFrame

\* process_trees: trees_df['arrondissement'].apply(normalize_arrondissement)
ProcessTreesNormalize ==
    /\ norm.x # Unset /\ norm.trees = Unset
    /\ norm' = [norm EXCEPT !.trees = TreesNormalizeArrondissement(norm.x)]
    /\ NormFrame

\* process_cooling_spaces: .apply(normalize_cooling_arrondissement)
ProcessCoolingNormalize ==
    /\ norm.x # Unset /\ norm.cooling = Unset
    /\ norm' = [norm EXCEPT !.cooling = NormalizeCoolingArrondissement(norm.x)]
    /\ NormFrame

NextNorm ==
    \/ LoadNormalize
    \/ LoadNormalizeAgain
    \/ ProcessTreesNormalize
    \/ ProcessCoolingNormalize

SpecNorm == InitNorm /\ [][NextNorm]_vars


\* ================================================================== claims
InRun == pc # "idle"
Sequential == ~(IsTrees /\ parallel)
InFallback == pc \in {"csv", "csv_rm", "done"}

\* C1: when the zero-row probe fails, the run invokes the full-export
\* fallback (exactly once) and no page request is issued at any offset.
C1_ProbeFailureFallsBack ==
    h.probe = "fail" => (InFallback /\ h.csvCalls = 1 /\ h.reqs = {} /\ ~h.reqAfterCsv)

C1_Witness == h.probe = "fail" /\ pc = "done" /\ h.export = "ok"

\* C2: in sequential pagination no offset is requested more than 5 times in
\* a run, and once a page has failed 5 times in a row the run is on its way to
\* (or in) the full-export fallback and that page's 5th request stays the
\* last page request of the run.
C2_AtMostFiveThenFallback ==
    (InRun /\ Sequential) =>
        /\ ~h.revisit
        /\ h.curTries <= 5 /\ ~h.tooMany
        /\ h.exhaustedAt # -1 =>
              /\ pc \in {"seq_save", "ckpt_open", "ckpt_dump", "csv", "csv_rm", "done"}
              /\ h.lastReq = h.exhaustedAt /\ h.curTries = 5
              /\ ~h.reqAfterCsv
              /\ (InFallback => h.csvCalls = 1)

C2_Witness ==
    /\ Sequential /\ pc = "done" /\ h.exhaustedAt = 2000 /\ h.curTries = 5
    /\ h.csvCalls = 1

\* C3: when a run goes through the fallback and the export succeeds, the
\* returned frame and the snapshot file at the output path are exactly the
\* export's records.
C3_ExportReplacesPartial ==
    (pc = "done" /\ h.export = "ok") =>
        /\ result = h.exportRows
        /\ files[save_as].exists /\ files[save_as].header
        /\ files[save_as].rows = h.exportRows

\* the spec's scenario: 5 failures on the 7th page, records of pages 1..6
\* accumulated and saved, then a successful non-empty export
C3_Witness ==
    /\ pc = "done" /\ h.export = "ok" /\ h.exportRows # <<>>
    /\ h.exhaustedAt = 6000 /\ Count(all_records) = 6000


\* number of occurrences, in a record list, of records with index below k
RECURSIVE Below(_, _)
Below(recs, k) ==
    IF recs = <<>> THEN 0
    ELSE (IF Head(recs).lo < k THEN Min(Head(recs).hi, k) - Head(recs).lo ELSE 0)
         + Below(Tail(recs), k)

\* no record with index below k occurs twice in the list
NoRepeatBelow(recs, k) ==
    \A i, j \in 1..Len(recs) :
        i < j => \/ recs[i].hi <= recs[j].lo \/ recs[j].hi <= recs[i].lo
                 \/ (recs[i].lo >= k \/ recs[j].lo >= k)

\* each of the first k records of the dataset occurs exactly once
FirstKOnce(recs, k) == Below(recs, k) = k /\ NoRepeatBelow(recs, k)

\* the call started with checkpoint {start: k}, k > 0, and a snapshot at
\* save_as holding the first k records of the dataset
ResumablePair ==
    /\ InRun /\ IsTrees
    /\ h.cache0.st = "ok" /\ h.cache0.start > 0
    /\ h.file0.exists /\ h.file0.rows = <<Seg("row", 0, h.cache0.start)>>

\* C4: for the resumable dataset, a run that starts with checkpoint offset k
\* and a snapshot of the first k records issues its first page request at
\* offset k, issues no page request below k, and at completion has each of
\* the first k records exactly once among the accumulated records.
C4_ResumeAtCheckpoint ==
    ResumablePair =>
        /\ h.firstReq # -1 => h.firstReq = h.cache0.start
        /\ \A o \in h.reqs : o >= h.cache0.start
        /\ pc \in {"final", "final_rm"} => FirstKOnce(all_records, h.cache0.start)

C4_Witness ==
    /\ ResumablePair /\ pc = "final_rm"
    /\ h.firstReq = h.cache0.start
    /\ Count(all_records) > h.cache0.start

\* C5 (as claimed): unless both a checkpoint and a snapshot file exist when
\* the call starts, pagination starts at offset 0 with an empty accumulator.
C5_Claimed ==
    (InRun /\ h.resumeStart # -1 /\ ~(h.cache0.st # "absent" /\ h.file0.exists)) =>
        (h.resumeStart = 0 /\ h.resumeCount = 0)

C7_Claimed == InRun => \A o \in h.cacheWrites : o <= nhits

\* C8 (as claimed): when a run has returned, a snapshot file exists at the
\* output path.
C8_Claimed == pc = "done" => files[save_as].exists

\* C9: when pagination has finished with fewer records than nhits, the
\* snapshot has been written when the fallback is invoked and the run returns
\* the fallback's result; with at least nhits records the fallback is not
\* invoked and the accumulated records are returned.
C9_ShortfallFallsBack ==
    h.finalCount # -1 =>
        /\ pc \in {"final_rm", "csv", "csv_rm", "done"}
        /\ h.finalCount < nhits =>
              \/ pc = "final_rm"
              \/ /\ h.csvCalls = 1
                 /\ pc = "csv" => /\ files[save_as].exists
                                  /\ files[save_as].rows = JsonNormalize(all_records)
                 /\ pc = "done" => /\ h.export # "none"
                                   /\ result = IF h.export = "ok" THEN h.exportRows ELSE <<>>
        /\ h.finalCount >= nhits =>
              /\ h.csvCalls = 0
              /\ pc \in {"final_rm", "done"}
              /\ pc = "done" => /\ result = JsonNormalize(all_records)
                                /\ Count(result) = h.finalCount

C9_Witness ==
    /\ pc = "done" /\ h.finalCount > 0 /\ h.finalCount < nhits
    /\ h.export = "ok" /\ result = h.exportRows

\* C10: for les-arbres with a probed nhits above 9000 the run goes straight
\* to the full export: no page request is issued and the checkpoint has been
\* neither read nor written when the export is invoked.
C10_LargeGoesToExport ==
    (IsTrees /\ h.probe = "ok" /\ nhits > 9000 /\ pc \notin {"idle", "probe", "gate"}) =>
        /\ InFallback /\ h.csvCalls = 1
        /\ h.reqs = {} /\ ~h.cacheRead /\ h.cacheWrites = {}

C10_Witness ==
    /\ IsTrees /\ nhits > 9000 /\ pc = "csv"
    /\ h.cache0.st = "ok" /\ cache = h.cache0


\* the fallback is about to be attempted after a page failed 5 times in a row
ExhaustedBeforeExport == pc = "csv" /\ h.exhaustedAt # -1

\* C11 (as claimed): when a page has failed 5 consecutive times, then before
\* the export is attempted the snapshot file holds all accumulated records
\* and the checkpoint holds the offset of the failing page.
C11_Claimed ==
    ExhaustedBeforeExport =>
        /\ files[save_as].exists
        /\ files[save_as].rows = JsonNormalize(all_records)
        /\ cache = CacheOf(h.exhaustedAt)

\* C11 (amended): when a page has failed 5 consecutive times and at least one
\* record has been accumulated, then before the export is attempted the
\* snapshot file holds all accumulated records and, for the resumable
\* dataset, the checkpoint holds the offset of the failing page.
C11_PartialPersistedBeforeExport ==
    (ExhaustedBeforeExport /\ all_records # <<>>) =>
        /\ files[save_as].exists /\ files[save_as].header
        /\ files[save_as].rows = JsonNormalize(all_records)
        /\ IsTrees => cache = CacheOf(h.exhaustedAt)

C11_Witness ==
    /\ ExhaustedBeforeExport /\ IsTrees /\ h.exhaustedAt = 2000
    /\ Count(files[save_as].rows) = 2000 /\ cache = CacheOf(2000)


\* C12 (as claimed): a run for the resumable dataset that finds a corrupt
\* checkpoint file (unparseable, without offset field, or with an offset that
\* is not a number) does not raise and starts pagination at offset 0 with an
\* empty accumulator.
C12_Claimed ==
    (IsTrees /\ h.cache0 \in CorruptCaches /\ h.probe = "ok" /\ ~h.gate
       /\ pc \notin {"idle", "probe", "gate", "resume"}) =>
        /\ pc # "raised"
        /\ h.resumeStart = 0 /\ h.resumeCount = 0


\* C13: no failure of the probe, of a page fetch or of the full export
\* propagates as an exception (a call that raised had a successful probe,
\* issued no page request and never invoked the export); a failed export
\* returns an empty result; and in __main__, whatever fetch_trees() returned,
\* the next step is the start of the next dataset's retrieval.
C13_FailuresDoNotPropagate ==
    /\ [](pc = "raised" => (h.probe = "ok" /\ h.reqs = {} /\ h.csvCalls = 0))
    /\ []((pc = "done" /\ h.export = "fail") => result = <<>>)
    /\ [][(pc = "done" /\ driver = 1) =>
            (pc' = "probe" /\ driver' = 2 /\ dataset' = EspacesVerts)]_vars

\* fetch_trees() ended with a failed export (nothing at its path) and
\* fetch_green_spaces() was still run, its export failing too
C13_Witness ==
    /\ driver = 2 /\ pc = "done" /\ h.export = "fail" /\ result = <<>>
    /\ ~files[TreesCsv].exists


\* C14: in parallel mode, once one of the concurrently issued page fetches
\* has returned an error, in whichever order the fetches complete, the
\* accumulator and the offset stay as they were before the batch, no further
\* page request is issued, and the batch is followed by the full-export
\* fallback.
C14_ChunkErrorAbandonsBatch ==
    /\ [](h.chunkErr => (pc \in {"par_wait", "csv", "csv_rm", "done"} /\ ~h.reqAfterCsv))
    /\ [][(h.chunkErr /\ h'.chunkErr) =>
            (all_records' = all_records /\ start' = start /\ h'.reqs = h.reqs)]_vars
    /\ [][(h.chunkErr /\ pc = "par_wait" /\ pc' \notin {"par_wait", "idle"}) =>
            (pc' = "csv" /\ h'.csvCalls = 1)]_vars

\* the second fetch of the second batch completed first, one of the two
\* failed and the other returned 1000 records; the 2000 records of the
\* earlier batch are what the accumulator holds when the export has run
C14_Witness ==
    /\ pc = "done" /\ h.chunkErr /\ h.doneOrder = <<2, 1>> /\ h.errBatch = 1000
    /\ Count(all_records) = 2000 /\ h.reqs = {0, 1000, 2000, 3000}


\* C15 (as claimed): a run whose probe reports nhits = 0 issues no page
\* request, does not invoke the fallback, writes a snapshot with zero records
\* and leaves no checkpoint, whatever files existed when it started.
C15_Claimed ==
    (pc = "done" /\ h.probe = "ok" /\ nhits = 0) =>
        /\ h.reqs = {} /\ h.csvCalls = 0
        /\ files[save_as].exists /\ files[save_as].rows = <<>>
        /\ cache.st = "absent"


\* C16 (as claimed): a run for a dataset other than les-arbres leaves the
\* checkpoint file as it found it on every path, the fallback included, and
\* starts pagination at offset 0.
C16_Claimed ==
    (InRun /\ ~IsTrees) =>
        /\ cache = h.cache0
        /\ h.resumeStart \in {-1, 0}
        /\ h.firstReq \in {-1, 0}


\* C17 (as claimed): saving the checkpoint is atomic: at every point, also
\* after a crash in the middle of a save, the checkpoint file is absent or
\* holds a complete checkpoint, never an empty or partly written one.
C17_Claimed == cache.st \in {"absent", "ok"}


\* C18 (as claimed): after a malformed response to a page request
\* (unparseable body or no records field) the same page is not requested
\* again.
C18_Claimed ==
    [][(InRun /\ h.lastErr = "malformed") =>
          ~(pc = "seq" /\ pc' \in {"seq", "seq_save", "incr", "final"} /\ start = h.lastReq)]_vars


Running == pc \notin {"idle", "done", "raised"}

\* C19: every run terminates under every pattern of failures and short or
\* empty pages: a call that is not killed reaches its return (or raise); the
\* offset is strictly larger each time control is back at the loop test; no
\* page is attempted more than 5 times or revisited; the export is invoked
\* at most once and no page request follows it.
C19_EveryRunTerminates ==
    /\ [](Running => <>(~Running))
    /\ []((pc = "loop" /\ h.iterStart # -1) => start > h.iterStart)
    /\ [](h.curTries <= MaxAttempts /\ ~h.tooMany /\ ~h.revisit)
    /\ [](h.csvCalls <= 1 /\ ~h.reqAfterCsv)

\* a call that met a short page after 5 full ones, fell back to the export
\* and returned
C19_Witness ==
    /\ pc = "done" /\ h.csvCalls = 1 /\ h.iterStart = 5000 /\ start = 5500
    /\ avail = ShortAvail /\ h.export = "fail"


\* C20 (as claimed): a session rotation leaves the offset, the accumulated
\* records, the checkpoint and the snapshot files unchanged, and at least
\* 5000 records were fetched in the session it closes.
C20_Claimed ==
    [][(pc = "rotate" /\ session' = session + 1) =>
          /\ start' = start /\ all_records' = all_records
          /\ cache' = cache /\ files' = files
          /\ h.sessFetched >= SessionLimit]_vars


\* ------------------------------------------------ claims on the normalizers
InRange(n) == 75001 <= n /\ n <= 75020
\* the raw value is a district code (blanks around it allowed) or a number
\* in 75001..75020, given as a number or as its text
ValidRaw(x) ==
    \/ x.t = "str" /\ Strip(x.s) \in Canonical
    \/ x.t \in {"int", "float"} /\ InRange(x.n)
    \/ x.t = "str" /\ IntOfFloatStr(x.s).t = "int" /\ InRange(IntOfFloatStr(x.s).n)

\* C21 (as claimed): every result of normalize_arrondissement other than
\* None is one of the 20 five-character codes 75001..75020, and an input that
\* is neither such a code nor a number in 75001..75020 ("7501", "750123",
\* "75001abc") gives None.
C21_Claimed ==
    norm.load # Unset =>
        /\ norm.load # None => (norm.load.t = "str" /\ norm.load.s \in Canonical)
        /\ ~ValidRaw(norm.x) => norm.load = None

\* C22 (as claimed): the normalizers of process_trees, of
\* process_cooling_spaces and of load_to_db return the same result for every
\* raw input.
C22_Claimed ==
    (norm.load # Unset /\ norm.trees # Unset /\ norm.cooling # Unset) =>
        (norm.trees = norm.load /\ norm.cooling = norm.load)

\* the raw representations of district code c that the claim lists
DistrictReps(c) ==
    {PyStrV(IntStr(c)), PyInt(c), PyFloat(c, 0), PyStrV(IntStr(c) \o <<".", "0">>)}
    \cup {PyStrV(Blanks(k) \o IntStr(c) \o Blanks(k)) : k \in 1..MaxPad}

\* C23: for every district code c in 75001..75020, the 5-character string,
\* the string with blanks around it, the integer, the float c.0 and its text
\* are all mapped to the 5-character string of c (by load_to_db's normalizer
\* and by the cooling-spaces one).
C23_RepresentationsCollapse ==
    \A d \in 1..20 :
        norm.x \in DistrictReps(Code(d)) =>
            /\ norm.load # Unset => norm.load = PyStrV(IntStr(Code(d)))
            /\ norm.cooling # Unset => norm.cooling = PyStrV(IntStr(Code(d)))

C23_Witness ==
    /\ norm.x = PyFloat(75017, 0)
    /\ norm.load = PyStrV(<<"7", "5", "0", "1", "7">>)
    /\ norm.cooling = norm.load

\* a text without any digit that float() does not read as a number
NonNumericText(x) ==
    /\ x.t = "str"
    /\ \A i \in 1..Len(x.s) : x.s[i] \notin Digits
    /\ Strip(x.s) \notin {<<"i", "n", "f">>, <<"n", "a", "n">>}
\* a number outside 75001..75020
NumberOutside(x) ==
    \/ x.t \in {"int", "float"} /\ ~InRange(x.n)
    \/ x.t = "inf"

\* C24 (as claimed): normalize_arrondissement returns None, without raising,
\* for a null input, for non-numeric text and for every number outside
\* 75001..75020.
C24_Claimed ==
    (norm.load # Unset /\ (IsNa(norm.x) \/ NonNumericText(norm.x) \/ NumberOutside(norm.x))) =>
        norm.load = None

\* C25: normalize_arrondissement applied to its own result returns that
\* result, a canonical code is returned unchanged, and the second
\* application in load_data leaves the column value as the first one made it.
C25_Idempotent ==
    /\ (norm.load # Unset /\ norm.load.t # "raise") =>
            NormalizeArrondissement(norm.load) = norm.load
    /\ (norm.load # Unset /\ norm.x.t = "str" /\ norm.x.s \in Canonical) =>
            norm.load = norm.x
    /\ norm.again # Unset => norm.again = norm.load

C25_Witness ==
    /\ norm.x = PyStrV(<<"7", "5", "0", "1", "2", ".", "0">>)
    /\ norm.load = PyStrV(<<"7", "5", "0", "1", "2">>)
    /\ norm.again = norm.load


\* no record occurs twice in the list
NoRepeat(recs) ==
    \A i, j \in 1..Len(recs) :
        i < j => (recs[i].hi <= recs[j].lo \/ recs[j].hi <= recs[i].lo)

\* the call is the restart of a fetch of the resumable dataset that was
\* killed during pagination, and the probe reports the same nhits as then
RestartedAfterCrash == IsTrees /\ h.prev # -1 /\ h.probe = "ok" /\ nhits = h.prev

\* C26 (as claimed): after a crash during pagination of the resumable
\* dataset, the records accumulated by the restarted run contain no record
\* twice and their count never exceeds nhits.
C26_Claimed ==
    RestartedAfterCrash => (NoRepeat(all_records) /\ Count(all_records) <= nhits)


\* C27 (as claimed): whenever a run that started at offset 0 writes a
\* checkpoint together with a snapshot, the checkpoint offset equals the
\* number of records in that snapshot.
C27_Claimed ==
    [][(pc = "ckpt_dump" /\ h.resumeStart = 0 /\ cache'.st = "ok") =>
          cache'.start = Count(files'[save_as].rows)]_vars


\* C28 (as claimed): when a call of fetch_from_paris_api returns, the
\* returned frame has as many records as the file at the output path, also
\* after a failed export that follows partial pagination.
C28_Claimed ==
    pc = "done" => Count(result) = Count(files[save_as].rows)

====
